---- MODULE Spec2Model ----
(***************************************************************************)
(* Model of openstack_cli_setup.py: the bootstrap script that provisions   *)
(* a virtualenv, locates kubectl, fetches clouds.yaml from the keystone    *)
(* client pod, patches /etc/hosts and writes an activation script.         *)
(*                                                                         *)
(* Text files are sequences of tokens.  A token is a record [k, a, b]:     *)
(*   k = "nl"   the newline character                                      *)
(*   k = "txt"  a run of characters that does not contain the managed      *)
(*              domain, a = the text as a sequence of chunks               *)
(*   k = "dom"  the text "<a> <b>.it.just.works" (it contains the domain)  *)
(* Python strings are sequences of chunks, so that strip() and string      *)
(* formatting are computed and not assumed.                                *)
(***************************************************************************)
EXTENDS Integers, Sequences, FiniteSets, TLC

VARIABLES
    hosts,        \* content of /etc/hosts
    bak,          \* content of /etc/hosts.bak
    new_hosts,    \* content of /etc/new_hosts
    kubeconfig,   \* KUBECONFIG_FILE.exists()
    kubectlCalls, \* number of kubectl subprocesses started so far
    pc,           \* per patcher instance: position inside modify_hosts_file
    ip,           \* per patcher instance: the local variable ip
    halted,       \* per patcher instance: the process was interrupted or raised
    runs,         \* per patcher instance: completed runs of modify_hosts_file
    todo,         \* per patcher instance: invocations of modify_hosts_file still to come
    start,        \* history: /etc/hosts when the instance's current run began
    prevIp,       \* history: ip of the instance's previous completed run
    orig,         \* history: /etc/hosts in the initial state
    overlap,      \* history: some run began while another instance was mid-run
    clouds_yaml,  \* the file clouds.yaml in the working directory
    kubectl_file, \* the file ~/.local/bin/kubectl
    local_bin_dir,\* the directory ~/.local/bin exists
    downloads,    \* number of urlretrieve calls so far
    last,         \* history: the last direct call, its inputs and its outcome
    calls,        \* number of direct calls so far
    mainPc,       \* main(): the step to execute next, or "done", "aborted", "off"
    started,      \* history: the steps of main() begun so far, in order
    completed,    \* history: the steps of main() that returned, in order
    failed,       \* history: the step in which a subprocess exited non-zero
    venv,         \* VENV_DIR.exists()
    requirements, \* the file requirements.txt
    activation,   \* the file activate_openstack.sh
    banner,       \* the completion banner was printed
    kubectl_bin,  \* main(): the local variable kubectl_bin
    path          \* main(): the local variable path

fileVars == <<hosts, bak, new_hosts>>
clusterVars == <<kubeconfig, kubectlCalls>>
patcherVars == <<pc, ip, halted, runs, todo, start, prevIp, orig, overlap>>
toolVars == <<clouds_yaml, kubectl_file, local_bin_dir, downloads>>
callVars == <<last, calls>>
mainVars == <<mainPc, started, completed, failed, venv, requirements, activation,
              banner, kubectl_bin, path>>

-----------------------------------------------------------------------------
(* Bounds *)

\* longest initial /etc/hosts, in lines
MaxLines == 2
\* runs of modify_hosts_file per patcher instance
MaxRuns == 2
\* direct calls of the script's functions
MaxCalls == 2

-----------------------------------------------------------------------------
(* Python values *)

None == [t |-> "none", v |-> <<>>]
Str(s) == [t |-> "str", v |-> s]

\* str.strip(): drop leading and trailing whitespace
IsSpace(c) == c \in {" ", "\n", "\t"}

RECURSIVE LStrip(_)
LStrip(s) == IF s # <<>> /\ IsSpace(Head(s)) THEN LStrip(Tail(s)) ELSE s

RECURSIVE RStrip(_)
RStrip(s) ==
    IF s # <<>> /\ IsSpace(s[Len(s)]) THEN RStrip(SubSeq(s, 1, Len(s) - 1)) ELSE s

Strip(s) == RStrip(LStrip(s))

\* f"{value}": the text an f-string substitutes for a value
Format(val) == IF val.t = "none" THEN <<"None">> ELSE val.v

-----------------------------------------------------------------------------
(* Text files *)

NL == [k |-> "nl", a |-> <<>>, b |-> ""]
Txt(s) == [k |-> "txt", a |-> <<s>>, b |-> ""]
Dom(addr, name) == [k |-> "dom", a |-> addr, b |-> name]

\* file.readlines(): the lines of a text, each with its terminator if it has one
RECURSIVE SplitLines(_, _)
SplitLines(text, cur) ==
    IF text = <<>> THEN (IF cur = <<>> THEN <<>> ELSE <<cur>>)
    ELSE IF Head(text).k = "nl"
         THEN <<Append(cur, Head(text))>> \o SplitLines(Tail(text), <<>>)
         ELSE SplitLines(Tail(text), Append(cur, Head(text)))

readlines(text) == SplitLines(text, <<>>)

RECURSIVE Concat(_)
Concat(lines) == IF lines = <<>> THEN <<>> ELSE Head(lines) \o Concat(Tail(lines))

\* open(path, 'w'): the file is truncated when it is opened
OpenTruncate(content) == <<>>

\* the buffered data of a handle opened with 'w' reaches the file at offset 0
WriteAtStart(content, data) ==
    data \o SubSeq(content, Len(data) + 1, Len(content))

\* a handle opened with 'r+': the data lands at the start of the file
WriteAtEnd_rewound(content, data) ==
    data \o SubSeq(content, Len(data) + 1, Len(content))

\* a handle opened with 'a+' writes at the end of the file
WriteAtEnd(content, data) == content \o data

-----------------------------------------------------------------------------
(* modify_hosts_file: the pure parts *)

domain == ".it.just.works"

endpoints ==
    <<"horizon", "masakari", "keystone", "placement", "barbican",
      "cloudformation", "cinder", "gnocchi", "glance", "neutron", "aodh",
      "heat", "openstack-store", "designate", "nova", "octavia", "glance-api">>

\* `domain in line`
ContainsDomain(line) == \E i \in 1..Len(line) : line[i].k = "dom"

\* the lines the loop writes to /etc/new_hosts
RECURSIVE KeptLines(_)
KeptLines(lines) ==
    IF lines = <<>> THEN <<>>
    ELSE IF ~ContainsDomain(Head(lines))
         THEN <<Head(lines)>> \o KeptLines(Tail(lines))
         ELSE KeptLines(Tail(lines))

\* f"{ip} {endpoint}\n" with endpoint = name + domain
Entry(val, name) == <<Dom(Format(val), name), NL>>

\* a list that lost its last name
host_resolve_ip_list_short(val) ==
    [i \in 1..(Len(endpoints) - 1) |-> Entry(val, endpoints[i])]

\* host_resolve_ip_list
host_resolve_ip_list(val) == [i \in 1..Len(endpoints) |-> Entry(val, endpoints[i])]

\* modify_hosts_file as a function of the file and the resolved ip, when nothing
\* else touches the three files
PatchedHosts(text, val) ==
    Concat(KeptLines(readlines(text))) \o Concat(host_resolve_ip_list(val))

-----------------------------------------------------------------------------
(* kubectl and get_ingress_ip *)

\* what `kubectl get service ... -o jsonpath=...` may print
IngressStdouts == {<<>>, <<"10.0.0.5">>, <<"10.0.0.5", "\n">>}

IngressOutcomes ==
    {[rc |-> 1, stdout |-> <<>>]} \cup {[rc |-> 0, stdout |-> s] : s \in IngressStdouts}

\* subprocess.run without check=True: the exit status is ignored
run_unchecked(out) == [raised |-> FALSE, stdout |-> out.stdout]

\* run(): subprocess.run(cmd, check=True) raises on a non-zero exit status
run(out) == [raised |-> out.rc # 0, stdout |-> out.stdout]

get_ingress_ip(kc, out) ==
    IF ~kc
    THEN [called |-> FALSE, raised |-> FALSE, ret |-> None]
    ELSE LET res == run(out)
         IN  IF res.raised
             THEN [called |-> TRUE, raised |-> TRUE, ret |-> None]
             ELSE [called |-> TRUE, raised |-> FALSE, ret |-> Str(Strip(res.stdout))]

\* a patcher that refuses an unusable address
Proceeds_checked(val) == val.t = "str" /\ val.v # <<>>

\* lines 146-150: whatever get_ingress_ip returned, the function goes on to the backup
Proceeds(val) == TRUE

-----------------------------------------------------------------------------
(* modify_hosts_file, one action per file operation *)

Procs == DOMAIN pc

MidRun == {"backup_open", "backup_write", "open_new", "filter", "append",
           "replace_open", "replace_write"}

Ready(p, at) == pc[p] = at /\ ~halted[p]

\* line 146: ip = get_ingress_ip(kubectl_bin=kubectl_bin)
ResolveIp(p) ==
    /\ Ready(p, "idle")
    /\ todo[p] > 0
    /\ todo' = [todo EXCEPT ![p] = @ - 1]
    /\ \E out \in IngressOutcomes :
          LET r == get_ingress_ip(kubeconfig, out)
          IN  /\ kubectlCalls' = kubectlCalls + (IF r.called THEN 1 ELSE 0)
              /\ IF r.raised \/ ~Proceeds(r.ret)
                 THEN /\ pc' = [pc EXCEPT ![p] = "raised"]
                      /\ halted' = [halted EXCEPT ![p] = TRUE]
                      /\ UNCHANGED <<ip, prevIp>>
                 ELSE /\ pc' = [pc EXCEPT ![p] = "backup_open"]
                      /\ ip' = [ip EXCEPT ![p] = r.ret]
                      /\ prevIp' = [prevIp EXCEPT ![p] = ip[p]]
                      /\ UNCHANGED halted
    /\ start' = [start EXCEPT ![p] = hosts]
    /\ overlap' = (overlap \/ \E q \in Procs \ {p} : pc[q] \in MidRun)
    /\ UNCHANGED <<hosts, bak, new_hosts, kubeconfig, runs, orig>>

\* line 150: shutil.copy opens /etc/hosts.bak for writing ...
BackupOpen(p) ==
    /\ Ready(p, "backup_open")
    /\ bak' = OpenTruncate(bak)
    /\ pc' = [pc EXCEPT ![p] = "backup_write"]
    /\ UNCHANGED <<hosts, new_hosts, kubeconfig, kubectlCalls, ip, halted, runs,
                   todo, start, prevIp, orig, overlap>>

\* a backup taken from the rewritten file instead of the live one
BackupWrite_wrong_source(p) ==
    /\ Ready(p, "backup_write")
    /\ bak' = WriteAtStart(bak, new_hosts)
    /\ pc' = [pc EXCEPT ![p] = "open_new"]
    /\ UNCHANGED <<hosts, new_hosts, kubeconfig, kubectlCalls, ip, halted, runs,
                   todo, start, prevIp, orig, overlap>>

\* ... and copies the content of /etc/hosts into it
BackupWrite(p) ==
    /\ Ready(p, "backup_write")
    /\ bak' = WriteAtStart(bak, hosts)
    /\ pc' = [pc EXCEPT ![p] = "open_new"]
    /\ UNCHANGED <<hosts, new_hosts, kubeconfig, kubectlCalls, ip, halted, runs,
                   todo, start, prevIp, orig, overlap>>

\* a patcher that rewrites /etc/hosts in place
OpenNew_in_place(p) ==
    /\ Ready(p, "open_new")
    /\ hosts' = OpenTruncate(hosts)
    /\ pc' = [pc EXCEPT ![p] = "filter"]
    /\ UNCHANGED <<new_hosts, bak, kubeconfig, kubectlCalls, ip, halted, runs,
                   todo, start, prevIp, orig, overlap>>

\* lines 154-155: open('/etc/new_hosts', 'w')
OpenNew(p) ==
    /\ Ready(p, "open_new")
    /\ new_hosts' = OpenTruncate(new_hosts)
    /\ pc' = [pc EXCEPT ![p] = "filter"]
    /\ UNCHANGED <<hosts, bak, kubeconfig, kubectlCalls, ip, halted, runs,
                   todo, start, prevIp, orig, overlap>>

\* lines 156-158: copy the lines without the domain, then leave both with blocks
FilterLines(p) ==
    /\ Ready(p, "filter")
    /\ new_hosts' = WriteAtStart(new_hosts, Concat(KeptLines(readlines(hosts))))
    /\ pc' = [pc EXCEPT ![p] = "append"]
    /\ UNCHANGED <<hosts, bak, kubeconfig, kubectlCalls, ip, halted, runs,
                   todo, start, prevIp, orig, overlap>>

\* lines 161-165: open('/etc/new_hosts', 'a+') and write every entry
AppendEntries(p) ==
    /\ Ready(p, "append")
    /\ new_hosts' = WriteAtEnd(new_hosts, Concat(host_resolve_ip_list(ip[p])))
    /\ pc' = [pc EXCEPT ![p] = "replace_open"]
    /\ UNCHANGED <<hosts, bak, kubeconfig, kubectlCalls, ip, halted, runs,
                   todo, start, prevIp, orig, overlap>>

\* line 168: shutil.copy opens /etc/hosts for writing ...
ReplaceOpen(p) ==
    /\ Ready(p, "replace_open")
    /\ hosts' = OpenTruncate(hosts)
    /\ pc' = [pc EXCEPT ![p] = "replace_write"]
    /\ UNCHANGED <<bak, new_hosts, kubeconfig, kubectlCalls, ip, halted, runs,
                   todo, start, prevIp, orig, overlap>>

\* ... and copies the content of /etc/new_hosts into it; the function returns
ReplaceWrite(p) ==
    /\ Ready(p, "replace_write")
    /\ hosts' = WriteAtStart(hosts, new_hosts)
    /\ pc' = [pc EXCEPT ![p] = "idle"]
    /\ runs' = [runs EXCEPT ![p] = @ + 1]
    /\ UNCHANGED <<bak, new_hosts, kubeconfig, kubectlCalls, ip, halted,
                   todo, start, prevIp, orig, overlap>>

\* the process is killed, or a file operation raises: nothing is rolled back
Interrupt(p) ==
    /\ pc[p] \in MidRun
    /\ ~halted[p]
    /\ halted' = [halted EXCEPT ![p] = TRUE]
    /\ UNCHANGED <<hosts, bak, new_hosts, kubeconfig, kubectlCalls, pc, ip, runs,
                   todo, start, prevIp, orig, overlap>>

-----------------------------------------------------------------------------
(* YAML documents *)
(* A mapping is a function from key paths to scalars; a YAML text is a      *)
(* sequence of lines [path, text], text = [plain, s], in document order.    *)

True == [t |-> "bool", v |-> <<"True">>]
False == [t |-> "bool", v |-> <<"False">>]

BlankLine == [path |-> <<>>, text |-> [plain |-> TRUE, s |-> ""]]

\* str.strip() on a text of lines: leading and trailing blank lines go
RECURSIVE LStripLines(_)
LStripLines(text) ==
    IF text # <<>> /\ Head(text) = BlankLine THEN LStripLines(Tail(text)) ELSE text

RECURSIVE RStripLines(_)
RStripLines(text) ==
    IF text # <<>> /\ text[Len(text)] = BlankLine
    THEN RStripLines(SubSeq(text, 1, Len(text) - 1))
    ELSE text

StripLines(text) == RStripLines(LStripLines(text))

\* the YAML resolver: what a scalar's text loads as
Resolve(text) ==
    IF text.plain /\ text.s \in {"true", "True", "yes", "on"} THEN True
    ELSE IF text.plain /\ text.s \in {"false", "False", "no", "off"} THEN False
    ELSE IF text.plain /\ text.s \in {"null", "~", ""} THEN None
    ELSE Str(<<text.s>>)

\* a representer that never quotes
Represent_unquoted(val) ==
    IF val.t = "bool" THEN [plain |-> TRUE, s |-> (IF val = True THEN "true" ELSE "false")]
    ELSE IF val.t = "none" THEN [plain |-> TRUE, s |-> "null"]
    ELSE [plain |-> TRUE, s |-> val.v[1]]

\* the YAML representer: the text a scalar is dumped as
Represent(val) ==
    IF val.t = "bool" THEN [plain |-> TRUE, s |-> (IF val = True THEN "true" ELSE "false")]
    ELSE IF val.t = "none" THEN [plain |-> TRUE, s |-> "null"]
    ELSE [plain |-> Resolve([plain |-> TRUE, s |-> val.v[1]]).t = "str", s |-> val.v[1]]

\* yaml.safe_load
safe_load(text) ==
    LET body == {i \in 1..Len(text) : text[i] # BlankLine}
    IN  [q \in {text[i].path : i \in body} |->
            Resolve(text[CHOOSE i \in body : text[i].path = q].text)]

\* the keys of the documents, in the order yaml.dump sorts them
KeyOrder ==
    <<"admin", "admin-system", "auth", "auth_url", "clouds", "endpoint_type",
      "interface", "password", "region_name", "username", "verify">>

KeyRank(key) == CHOOSE i \in 1..Len(KeyOrder) : KeyOrder[i] = key

RECURSIVE PathLess(_, _)
PathLess(q, r) ==
    IF q = <<>> THEN r # <<>>
    ELSE IF r = <<>> THEN FALSE
    ELSE IF Head(q) = Head(r) THEN PathLess(Tail(q), Tail(r))
    ELSE KeyRank(Head(q)) < KeyRank(Head(r))

RECURSIVE SortPaths(_)
SortPaths(S) ==
    IF S = {} THEN <<>>
    ELSE LET least == CHOOSE q \in S : \A r \in S \ {q} : PathLess(q, r)
         IN  <<least>> \o SortPaths(S \ {least})

\* yaml.dump: one line per scalar, keys sorted
dump(d) ==
    LET order == SortPaths(DOMAIN d)
    IN  [i \in 1..Len(order) |-> [path |-> order[i], text |-> Represent(d[order[i]])]]

IsPrefix(q, r) == Len(q) <= Len(r) /\ SubSeq(r, 1, Len(q)) = q

\* d[k1][k2]... is a mapping
HasMapping(d, q) == \E r \in DOMAIN d : IsPrefix(q, r) /\ Len(r) > Len(q)

\* d[k1]...[kn] = val
SetItem(d, q, val) ==
    [r \in {x \in DOMAIN d : ~IsPrefix(q, x)} \cup {q} |-> IF r = q THEN val ELSE d[r]]

\* d[k1]...[kn], as a mapping of its own
SubTree(d, q) ==
    [r \in {SubSeq(x, Len(q) + 1, Len(x)) : x \in {y \in DOMAIN d : IsPrefix(q, y)}}
        |-> d[q \o r]]

\* {k1: {... {kn: d}}}
Wrap(q, d) ==
    [r \in {q \o x : x \in DOMAIN d} |-> d[SubSeq(r, Len(q) + 1, Len(r))]]

-----------------------------------------------------------------------------
(* get_clouds_yaml_from_client *)

AdminPath == <<"clouds", "admin">>

NoFile == [exists |-> FALSE, text |-> <<>>]
File(text) == [exists |-> TRUE, text |-> text]

\* Path.cwd() / 'clouds.yaml'
output_path == <<"<cwd>", "/", "clouds.yaml">>

\* lines 125-140: run kubectl, load, rewrite, save
FetchAndRewrite(out) ==
    LET res == run(out)
        data == safe_load(StripLines(res.stdout))
    IN  IF res.raised \/ ~HasMapping(data, AdminPath \o <<"auth">>)
        THEN [called |-> TRUE, raised |-> TRUE, ret |-> None, wrote |-> FALSE,
              file |-> <<>>]
        ELSE LET d1 == SetItem(data, AdminPath \o <<"auth", "auth_url">>,
                               Str(<<"https://keystone.it.just.works">>))
                 d2 == SetItem(d1, AdminPath \o <<"verify">>, False)
                 d3 == SetItem(d2, AdminPath \o <<"interface">>, Str(<<"public">>))
                 d4 == SetItem(d3, AdminPath \o <<"endpoint_type">>,
                               Str(<<"publicURL">>))
                 data_full == Wrap(AdminPath, SubTree(d4, AdminPath))
             IN  [called |-> TRUE, raised |-> FALSE, wrote |-> TRUE,
                  file |-> dump(data_full),
                  ret |-> [t |-> "tuple",
                           v |-> <<dump(SubTree(d4, AdminPath)), output_path>>]]

\* a fetcher that runs kubectl without looking for the kubeconfig
get_clouds_yaml_from_client_unguarded(kc, out) == FetchAndRewrite(out)

get_clouds_yaml_from_client(kc, out) ==
    IF ~kc
    THEN [called |-> FALSE, raised |-> FALSE, ret |-> None, wrote |-> FALSE, file |-> <<>>]
    ELSE FetchAndRewrite(out)

\* the lines clouds.yaml in the pod may hold
CloudsLines ==
    << [path |-> <<"clouds", "admin", "interface">>,
        text |-> [plain |-> TRUE, s |-> "internal"]],
       [path |-> <<"clouds", "admin", "verify">>,
        text |-> [plain |-> TRUE, s |-> "true"]],
       [path |-> <<"clouds", "admin", "auth", "password">>,
        text |-> [plain |-> FALSE, s |-> "no"]],
       [path |-> <<"clouds", "admin", "auth", "auth_url">>,
        text |-> [plain |-> TRUE, s |-> "http://keystone-api.openstack.svc:5000/v3"]],
       [path |-> <<"clouds", "admin-system", "auth", "auth_url">>,
        text |-> [plain |-> TRUE, s |-> "http://keystone-api.openstack.svc:5000/v3"]] >>

RECURSIVE PickFrom(_, _, _)
PickFrom(text, keep, i) ==
    IF i > Len(text) THEN <<>>
    ELSE (IF i \in keep THEN <<text[i]>> ELSE <<>>) \o PickFrom(text, keep, i + 1)

\* every selection of those lines, with or without a trailing blank line
CloudsTexts ==
    LET docs == {PickFrom(CloudsLines, keep, 1) : keep \in SUBSET (1..Len(CloudsLines))}
    IN  docs \cup {Append(d, BlankLine) : d \in docs}

CloudsOutcomes ==
    {[rc |-> 1, stdout |-> <<>>]} \cup {[rc |-> 0, stdout |-> s] : s \in CloudsTexts}

-----------------------------------------------------------------------------
(* install_kubectl *)

seed_kubectl_path == <<"/home/ubuntu/bootstrap/dev/bin/kubectl">>

\* Path.home() / ".local/bin/kubectl"
kubectl_path == <<"<home>", "/", ".local/bin/kubectl">>

\* an override that only has to be set
Truthy_is_set(val) == val.t = "str"

\* `if os.getenv('KUBECTL_PATH')`: set and not empty
Truthy(val) == val.t = "str" /\ val.v # <<>>

\* str.lower() on the names platform.system() returns
Lower(name) ==
    CASE name = "Linux" -> "linux"
      [] name = "Darwin" -> "darwin"
      [] OTHER -> name

\* lines 82-88
NormalizeArch(machine) ==
    IF machine \in {"x86_64", "amd64"} THEN "amd64"
    ELSE IF machine \in {"aarch64", "arm64"} THEN "arm64"
    ELSE "amd64"

\* lines 91-98: the stable version, or the fallback when the request fails
StableVersion(net) == IF net.stable_ok THEN Strip(net.stable_body) ELSE <<"v1.27.0">>

download_url(net, system, machine) ==
    <<"https://dl.k8s.io/release/">> \o StableVersion(net)
        \o <<"/bin/", Lower(system), "/", NormalizeArch(machine), "/kubectl">>

install_kubectl(envv, seed, which, system, machine, net) ==
    IF Truthy(envv)
    THEN [raised |-> FALSE, ret |-> Str(envv.v), mkdir |-> FALSE, attempted |-> FALSE,
          fetched |-> <<>>]
    ELSE IF seed
    THEN [raised |-> FALSE, ret |-> Str(seed_kubectl_path), mkdir |-> FALSE,
          attempted |-> FALSE, fetched |-> <<>>]
    ELSE IF which.t # "none"
    THEN [raised |-> FALSE, ret |-> which, mkdir |-> TRUE, attempted |-> FALSE,
          fetched |-> <<>>]
    ELSE IF net.download_ok
    THEN [raised |-> FALSE, ret |-> Str(kubectl_path), mkdir |-> TRUE,
          attempted |-> TRUE, fetched |-> download_url(net, system, machine)]
    ELSE [raised |-> TRUE, ret |-> None, mkdir |-> TRUE, attempted |-> TRUE,
          fetched |-> <<>>]

\* os.getenv('KUBECTL_PATH')
EnvValues == {None, Str(<<>>), Str(<<"/opt/bin/kubectl">>)}
\* shutil.which("kubectl")
WhichValues == {None, Str(<<"/usr/bin/kubectl">>)}
\* platform.machine()
Machines == {"x86_64", "arm64", "riscv64"}
\* the two requests of the download
NetOutcomes ==
    { [stable_ok |-> FALSE, stable_body |-> <<>>, download_ok |-> TRUE],
      [stable_ok |-> TRUE, stable_body |-> <<"v1.31.0", "\n">>, download_ok |-> TRUE],
      [stable_ok |-> TRUE, stable_body |-> <<"v1.31.0", "\n">>, download_ok |-> FALSE] }

-----------------------------------------------------------------------------
(* The functions called one at a time, with any inputs *)

\* kubectl_bin = install_kubectl()
CallInstallKubectl ==
    /\ calls < MaxCalls
    /\ \E envv \in EnvValues, seed \in BOOLEAN, which \in WhichValues,
          machine \in Machines, net \in NetOutcomes :
          LET r == install_kubectl(envv, seed, which, "Linux", machine, net)
          IN  /\ last' = [fn |-> "install_kubectl", envv |-> envv, seed |-> seed,
                          which |-> which, machine |-> machine, net |-> net,
                          raised |-> r.raised, ret |-> r.ret,
                          downloadsBefore |-> downloads]
              /\ local_bin_dir' = (local_bin_dir \/ r.mkdir)
              /\ downloads' = downloads + (IF r.attempted THEN 1 ELSE 0)
              /\ kubectl_file' = IF r.fetched # <<>> THEN File(r.fetched) ELSE kubectl_file
    /\ calls' = calls + 1
    /\ UNCHANGED <<clouds_yaml, fileVars, clusterVars, patcherVars, mainVars>>

\* get_ingress_ip(kubectl_bin), with the kubeconfig present or not
CallGetIngressIp ==
    /\ calls < MaxCalls
    /\ \E kc \in BOOLEAN, out \in IngressOutcomes :
          LET r == get_ingress_ip(kc, out)
          IN  /\ kubeconfig' = kc
              /\ kubectlCalls' = kubectlCalls + (IF r.called THEN 1 ELSE 0)
              /\ last' = [fn |-> "get_ingress_ip", kc |-> kc, out |-> out,
                          raised |-> r.raised, ret |-> r.ret,
                          kubectlBefore |-> kubectlCalls, fileBefore |-> clouds_yaml]
    /\ calls' = calls + 1
    /\ UNCHANGED <<toolVars, fileVars, patcherVars, mainVars>>

\* get_clouds_yaml_from_client(kubectl_bin), with the kubeconfig present or not
CallGetCloudsYaml ==
    /\ calls < MaxCalls
    /\ \E kc \in BOOLEAN, out \in CloudsOutcomes :
          LET r == get_clouds_yaml_from_client(kc, out)
          IN  /\ kubeconfig' = kc
              /\ kubectlCalls' = kubectlCalls + (IF r.called THEN 1 ELSE 0)
              /\ clouds_yaml' = IF r.wrote THEN File(r.file) ELSE clouds_yaml
              /\ last' = [fn |-> "get_clouds_yaml_from_client", kc |-> kc, out |-> out,
                          raised |-> r.raised, ret |-> r.ret,
                          kubectlBefore |-> kubectlCalls, fileBefore |-> clouds_yaml]
    /\ calls' = calls + 1
    /\ UNCHANGED <<kubectl_file, local_bin_dir, downloads, fileVars, patcherVars, mainVars>>

-----------------------------------------------------------------------------
(* main(): one action per step, each the whole function it calls *)

MainOrder ==
    <<"create_virtualenv", "install_dependencies", "install_kubectl",
      "get_clouds_yaml_from_client", "modify_hosts_file", "init_openstack_client",
      "create_activation_script", "banner">>

StepAfter(step) ==
    LET i == CHOOSE j \in 1..Len(MainOrder) : MainOrder[j] = step
    IN  IF i = Len(MainOrder) THEN "done" ELSE MainOrder[i + 1]

\* the step returned: main() goes on to the next one
Returns(step) ==
    /\ mainPc' = StepAfter(step)
    /\ started' = Append(started, step)
    /\ completed' = Append(completed, step)

\* the step raised: the exception leaves main() and the process ends
Raises(step) ==
    /\ mainPc' = "aborted"
    /\ started' = Append(started, step)
    /\ completed' = completed

\* a subprocess of the step exited with this status
Exited(step, out) == failed' = IF out.rc # 0 THEN step ELSE failed

ExitStatuses == {[rc |-> 0, stdout |-> <<>>], [rc |-> 1, stdout |-> <<>>]}

\* lines 20-25
create_virtualenv ==
    /\ mainPc = "create_virtualenv"
    /\ IF ~venv
       THEN \E out \in ExitStatuses :
               /\ Exited("create_virtualenv", out)
               /\ IF run(out).raised
                  THEN Raises("create_virtualenv") /\ UNCHANGED venv
                  ELSE Returns("create_virtualenv") /\ venv' = TRUE
       ELSE Returns("create_virtualenv") /\ UNCHANGED <<venv, failed>>
    /\ UNCHANGED <<requirements, activation, banner, kubectl_bin, path, fileVars,
                   clusterVars, patcherVars, toolVars, callVars>>

dependencies ==
    <<"python-openstackclient", "python-masakariclient", "python-cinderclient",
      "python-heatclient", "python-glanceclient", "python-neutronclient",
      "python-octaviaclient">>

\* '\n'.join(names)
RECURSIVE Join(_)
Join(names) ==
    IF Len(names) <= 1 THEN names
    ELSE <<Head(names), "\n">> \o Join(Tail(names))

\* lines 27-38
install_dependencies ==
    /\ mainPc = "install_dependencies"
    /\ requirements' = File(Join(dependencies))
    /\ \E out \in ExitStatuses :
          /\ Exited("install_dependencies", out)
          /\ IF run(out).raised
             THEN Raises("install_dependencies")
             ELSE Returns("install_dependencies")
    /\ UNCHANGED <<venv, activation, banner, kubectl_bin, path, fileVars,
                   clusterVars, patcherVars, toolVars, callVars>>

\* line 173: kubectl_bin = install_kubectl()
MainInstallKubectl ==
    /\ mainPc = "install_kubectl"
    /\ \E envv \in EnvValues, seed \in BOOLEAN, which \in WhichValues,
          machine \in Machines, net \in NetOutcomes :
          LET r == install_kubectl(envv, seed, which, "Linux", machine, net)
          IN  /\ local_bin_dir' = (local_bin_dir \/ r.mkdir)
              /\ downloads' = downloads + (IF r.attempted THEN 1 ELSE 0)
              /\ kubectl_file' = IF r.fetched # <<>> THEN File(r.fetched) ELSE kubectl_file
              /\ IF r.raised
                 THEN Raises("install_kubectl") /\ UNCHANGED kubectl_bin
                 ELSE Returns("install_kubectl") /\ kubectl_bin' = r.ret
    /\ UNCHANGED <<failed, venv, requirements, activation, banner, path, clouds_yaml,
                   fileVars, clusterVars, patcherVars, callVars>>

\* `a, b = value` raises unless the value is a pair
Unpacks(val) == val.t = "tuple"

\* the documents the pod returns to main()
MainCloudsOutcomes ==
    { [rc |-> 1, stdout |-> <<>>],
      [rc |-> 0, stdout |-> CloudsLines],
      [rc |-> 0, stdout |-> SubSeq(CloudsLines, 1, 2)] }

\* line 174: _, path = get_clouds_yaml_from_client(kubectl_bin)
MainGetCloudsYaml ==
    /\ mainPc = "get_clouds_yaml_from_client"
    /\ \E out \in MainCloudsOutcomes :
          LET r == get_clouds_yaml_from_client(kubeconfig, out)
          IN  /\ kubectlCalls' = kubectlCalls + (IF r.called THEN 1 ELSE 0)
              /\ clouds_yaml' = IF r.wrote THEN File(r.file) ELSE clouds_yaml
              /\ failed' = IF r.called /\ out.rc # 0
                           THEN "get_clouds_yaml_from_client" ELSE failed
              /\ IF r.raised \/ ~Unpacks(r.ret)
                 THEN Raises("get_clouds_yaml_from_client") /\ UNCHANGED path
                 ELSE Returns("get_clouds_yaml_from_client") /\ path' = Str(r.ret.v[2])
    /\ UNCHANGED <<venv, requirements, activation, banner, kubectl_bin, kubeconfig,
                   kubectl_file, local_bin_dir, downloads, fileVars, patcherVars,
                   callVars>>

\* lines 149-168 uninterrupted: the three files after the backup, the filter, the
\* append and the replacement
RewriteFiles(h, b, n, val) ==
    LET b1 == WriteAtStart(OpenTruncate(b), h)
        n1 == WriteAtStart(OpenTruncate(n), Concat(KeptLines(readlines(h))))
        n2 == WriteAtEnd(n1, Concat(host_resolve_ip_list(val)))
    IN  [bak |-> b1, new_hosts |-> n2, hosts |-> WriteAtStart(OpenTruncate(h), n2)]

\* line 175: modify_hosts_file(kubectl_bin); without the privileges to write under
\* /etc the first copy raises
MainModifyHostsFile ==
    /\ mainPc = "modify_hosts_file"
    /\ \E out \in IngressOutcomes, permitted \in BOOLEAN :
          LET r == get_ingress_ip(kubeconfig, out)
              f == RewriteFiles(hosts, bak, new_hosts, r.ret)
          IN  /\ kubectlCalls' = kubectlCalls + (IF r.called THEN 1 ELSE 0)
              /\ failed' = IF r.called /\ out.rc # 0 THEN "modify_hosts_file" ELSE failed
              /\ IF r.raised \/ ~Proceeds(r.ret) \/ ~permitted
                 THEN Raises("modify_hosts_file") /\ UNCHANGED fileVars
                 ELSE /\ Returns("modify_hosts_file")
                      /\ hosts' = f.hosts
                      /\ bak' = f.bak
                      /\ new_hosts' = f.new_hosts
    /\ UNCHANGED <<venv, requirements, activation, banner, kubectl_bin, path,
                   kubeconfig, patcherVars, toolVars, callVars>>

\* lines 40-49: fetch again, look for clouds.yaml, run `openstack endpoint list`
init_openstack_client ==
    /\ mainPc = "init_openstack_client"
    /\ \E out \in MainCloudsOutcomes, listing \in ExitStatuses :
          LET r == get_clouds_yaml_from_client(kubeconfig, out)
              saved == IF r.wrote THEN File(r.file) ELSE clouds_yaml
              fetched == ~r.raised /\ Unpacks(r.ret) /\ saved.exists
          IN  /\ kubectlCalls' = kubectlCalls + (IF r.called THEN 1 ELSE 0)
              /\ clouds_yaml' = saved
              /\ failed' = IF r.called /\ out.rc # 0 THEN "init_openstack_client"
                           ELSE IF fetched /\ listing.rc # 0 THEN "init_openstack_client"
                           ELSE failed
              /\ IF fetched /\ ~run(listing).raised
                 THEN Returns("init_openstack_client")
                 ELSE Raises("init_openstack_client")
    /\ UNCHANGED <<venv, requirements, activation, banner, kubectl_bin, path,
                   kubeconfig, kubectl_file, local_bin_dir, downloads, fileVars,
                   patcherVars, callVars>>

\* lines 51-63
create_activation_script ==
    /\ mainPc = "create_activation_script"
    /\ activation' = File(<<"source ", ".venv", "/bin/activate", "\n",
                            "export OS_CLIENT_CONFIG_FILE=">> \o Format(path)
                          \o <<"\n", "export KUBECONFIG=", "<kubeconfig>", "\n">>)
    /\ Returns("create_activation_script")
    /\ UNCHANGED <<failed, venv, requirements, banner, kubectl_bin, path, fileVars,
                   clusterVars, patcherVars, toolVars, callVars>>

\* lines 178-180
PrintBanner ==
    /\ mainPc = "banner"
    /\ banner' = TRUE
    /\ Returns("banner")
    /\ UNCHANGED <<failed, venv, requirements, activation, kubectl_bin, path, fileVars,
                   clusterVars, patcherVars, toolVars, callVars>>

-----------------------------------------------------------------------------
(* Initial /etc/hosts files *)

LineBodies ==
    { <<Txt("127.0.0.1 localhost")>>,
      <<Txt("10.0.0.2 db.internal")>>,
      <<Dom(<<"10.0.0.5">>, "keystone")>> }

Terminated == {Append(b, NL) : b \in LineBodies}

RECURSIVE LinesUpTo(_)
LinesUpTo(n) ==
    IF n = 0 THEN {<<>>}
    ELSE LET shorter == LinesUpTo(n - 1)
         IN  shorter \cup {Append(ls, l) : ls \in shorter, l \in Terminated}

\* every file of at most MaxLines lines; the last line may lack its newline
HostsFiles ==
    LET full == {Concat(ls) : ls \in LinesUpTo(MaxLines)}
        open == {Concat(ls) \o b : ls \in LinesUpTo(MaxLines - 1), b \in LineBodies}
    IN  full \cup open

InitFiles ==
    /\ hosts \in HostsFiles
    /\ orig = hosts
    /\ bak = <<>>
    /\ new_hosts = <<>>
    /\ kubeconfig \in BOOLEAN
    /\ kubectlCalls = 0

InitPatchers(ps, n) ==
    /\ pc = [p \in ps |-> "idle"]
    /\ todo = [p \in ps |-> n]
    /\ ip = [p \in ps |-> None]
    /\ prevIp = [p \in ps |-> None]
    /\ halted = [p \in ps |-> FALSE]
    /\ runs = [p \in ps |-> 0]
    /\ start = [p \in ps |-> hosts]
    /\ overlap = FALSE

NoCall == [fn |-> "none"]

\* main() is not running
InitNoMain ==
    /\ mainPc = "off"
    /\ started = <<>>
    /\ completed = <<>>
    /\ failed = "none"
    /\ venv = FALSE
    /\ requirements = NoFile
    /\ activation = NoFile
    /\ banner = FALSE
    /\ kubectl_bin = None
    /\ path = None

InitTools ==
    /\ clouds_yaml = NoFile
    /\ kubectl_file = NoFile
    /\ local_bin_dir = FALSE
    /\ downloads = 0
    /\ last = NoCall
    /\ calls = 0

InitOps ==
    /\ InitTools
    /\ InitNoMain
    /\ hosts = <<>>
    /\ orig = <<>>
    /\ bak = <<>>
    /\ new_hosts = <<>>
    /\ kubeconfig = TRUE
    /\ kubectlCalls = 0
    /\ InitPatchers({}, 0)

-----------------------------------------------------------------------------
(* Specifications *)

\* one patcher instance, run again and again
Init == InitFiles /\ InitPatchers({1}, MaxRuns) /\ InitTools /\ InitNoMain

\* modify_hosts_file, lines 142-168
Next ==
    \/ (\E p \in Procs : ResolveIp(p)) /\ UNCHANGED <<toolVars, callVars, mainVars>>
    \/ (\E p \in Procs : BackupOpen(p)) /\ UNCHANGED <<toolVars, callVars, mainVars>>
    \/ (\E p \in Procs : BackupWrite(p)) /\ UNCHANGED <<toolVars, callVars, mainVars>>
    \/ (\E p \in Procs : OpenNew(p)) /\ UNCHANGED <<toolVars, callVars, mainVars>>
    \/ (\E p \in Procs : FilterLines(p)) /\ UNCHANGED <<toolVars, callVars, mainVars>>
    \/ (\E p \in Procs : AppendEntries(p)) /\ UNCHANGED <<toolVars, callVars, mainVars>>
    \/ (\E p \in Procs : ReplaceOpen(p)) /\ UNCHANGED <<toolVars, callVars, mainVars>>
    \/ (\E p \in Procs : ReplaceWrite(p)) /\ UNCHANGED <<toolVars, callVars, mainVars>>
    \/ (\E p \in Procs : Interrupt(p)) /\ UNCHANGED <<toolVars, callVars, mainVars>>

vars == <<fileVars, clusterVars, patcherVars, toolVars, callVars, mainVars>>

Spec == Init /\ [][Next]_vars

\* two instances of the script, each invoked once, against the same three paths
InitConc == InitFiles /\ InitPatchers({1, 2}, 1) /\ InitTools /\ InitNoMain

\* both instances run on: any interleaving of their file operations
NextConc ==
    \/ (\E p \in Procs : ResolveIp(p)) /\ UNCHANGED <<toolVars, callVars, mainVars>>
    \/ (\E p \in Procs : BackupOpen(p)) /\ UNCHANGED <<toolVars, callVars, mainVars>>
    \/ (\E p \in Procs : BackupWrite(p)) /\ UNCHANGED <<toolVars, callVars, mainVars>>
    \/ (\E p \in Procs : OpenNew(p)) /\ UNCHANGED <<toolVars, callVars, mainVars>>
    \/ (\E p \in Procs : FilterLines(p)) /\ UNCHANGED <<toolVars, callVars, mainVars>>
    \/ (\E p \in Procs : AppendEntries(p)) /\ UNCHANGED <<toolVars, callVars, mainVars>>
    \/ (\E p \in Procs : ReplaceOpen(p)) /\ UNCHANGED <<toolVars, callVars, mainVars>>
    \/ (\E p \in Procs : ReplaceWrite(p)) /\ UNCHANGED <<toolVars, callVars, mainVars>>

SpecConc == InitConc /\ [][NextConc]_vars

\* one run of the script
InitMain ==
    /\ InitFiles
    /\ InitPatchers({}, 0)
    /\ InitTools
    /\ mainPc = "create_virtualenv"
    /\ started = <<>>
    /\ completed = <<>>
    /\ failed = "none"
    /\ venv \in BOOLEAN
    /\ requirements = NoFile
    /\ activation = NoFile
    /\ banner = FALSE
    /\ kubectl_bin = None
    /\ path = None

\* main, lines 170-180
NextMain ==
    \/ create_virtualenv
    \/ install_dependencies
    \/ MainInstallKubectl
    \/ MainGetCloudsYaml
    \/ MainModifyHostsFile
    \/ init_openstack_client
    \/ create_activation_script
    \/ PrintBanner

SpecMain == InitMain /\ [][NextMain]_vars

NextOps ==
    \/ CallInstallKubectl
    \/ CallGetIngressIp
    \/ CallGetCloudsYaml

\* the functions of the script called directly
SpecOps == InitOps /\ [][NextOps]_vars

-----------------------------------------------------------------------------
(* Claims about modify_hosts_file, checked under Spec *)

\* the instance has completed a run and has not begun another
Done(p) == pc[p] = "idle" /\ runs[p] >= 1

IsManaged(line) == \E i \in 1..Len(line) : line[i].k = "dom"
Unmanaged(line) == ~IsManaged(line)

\* the line "<ip> <service><suffix>" with its newline
EntryLine(val, i) == <<[k |-> "dom", a |-> Format(val), b |-> endpoints[i]], NL>>

EntryLines(val, n) == [i \in 1..n |-> EntryLine(val, i)]

EndsLine(text) == text = <<>> \/ text[Len(text)].k = "nl"

NumManaged(text) == Cardinality({i \in 1..Len(text) : text[i].k = "dom"})

\* C1 as stated: after a run of modify_hosts_file the hosts file consists of the
\* N-M original lines without the suffix, verbatim and in order, followed by
\* exactly 16 appended lines "<ip> <service><suffix>".
C1_SixteenEntries ==
    \A p \in Procs : Done(p) =>
        LET before == readlines(start[p])
            kept == SelectSeq(before, Unmanaged)
            after == readlines(hosts)
        IN  /\ Len(after) = Len(kept) + 16
            /\ SubSeq(after, 1, Len(kept)) = kept
            /\ SubSeq(after, Len(kept) + 1, Len(after)) = EntryLines(ip[p], 16)

\* C1 amended: after a run the text of the hosts file is the N-M original lines
\* without the suffix, verbatim and in order, followed by the text of exactly 17
\* entries "<ip> <service><suffix>\n", one per name of the list; these are 17 lines
\* of their own when the kept text is empty or ends with a newline, and otherwise
\* the first entry continues the unterminated last kept line.
C1_SeventeenEntries ==
    \A p \in Procs : Done(p) =>
        LET before == readlines(start[p])
            kept == SelectSeq(before, Unmanaged)
            after == readlines(hosts)
            n == Len(kept)
            M == Cardinality({i \in 1..Len(before) : IsManaged(before[i])})
        IN  /\ Len(endpoints) = 17
            /\ n = Len(before) - M
            /\ hosts = Concat(kept) \o Concat(EntryLines(ip[p], 17))
            /\ IF EndsLine(Concat(kept))
               THEN after = kept \o EntryLines(ip[p], 17)
               ELSE /\ Len(after) = n + 16
                    /\ SubSeq(after, 1, n - 1) = SubSeq(kept, 1, n - 1)
                    /\ after[n] = kept[n] \o EntryLine(ip[p], 1)
                    /\ \A i \in 2..17 : after[n + i - 1] = EntryLine(ip[p], i)

\* C1 witness: a completed run on a file with managed and unmanaged lines
C1_Witness ==
    /\ Done(1)
    /\ \E i \in 1..Len(readlines(start[1])) : IsManaged(readlines(start[1])[i])
    /\ \E i \in 1..Len(readlines(start[1])) : Unmanaged(readlines(start[1])[i])
    /\ Len(readlines(start[1])) >= 2

\* C2 as stated: a second run with the same resolved ip leaves the hosts file as the
\* first run left it, with no managed entry beyond the 17 of one run.
C2_Idempotent ==
    \A p \in Procs :
        (Done(p) /\ runs[p] >= 2 /\ ip[p] = prevIp[p]) =>
            /\ hosts = start[p]
            /\ NumManaged(hosts) = Len(endpoints)

\* C7: until the replacement step begins the live hosts file is what it was when
\* the run began, and from the end of the backup step until then the backup equals
\* it; so the live file changes only after the backup was written, and an
\* interrupted run leaves both in that state.
C7_BackupBeforeMutation ==
    \A p \in Procs :
        /\ pc[p] \in MidRun \ {"replace_write"} => hosts = start[p]
        /\ pc[p] \in {"open_new", "filter", "append", "replace_open"} => bak = start[p]
        /\ (pc[p] \in MidRun /\ hosts # start[p]) => bak = start[p]

\* C7 witness: a run interrupted after the backup and before the replacement, on a
\* file the run would have changed
C7_Witness ==
    /\ halted[1]
    /\ pc[1] = "replace_open"
    /\ new_hosts # hosts
    /\ hosts # <<>>

\* C9: with the kubeconfig missing the patcher never stops at the resolver; and a run
\* whose resolved ip is None or the empty string completes like any other: the
\* backup holds the file as it was, no managed line of the old file is left, and the
\* 17 appended entries carry the address "None", or no address at all.
C9_UncheckedIp ==
    \A p \in Procs :
        /\ ~kubeconfig => pc[p] # "raised"
        /\ (Done(p) /\ ip[p] \in {None, Str(<<>>)}) =>
              /\ bak = start[p]
              /\ hosts = Concat(SelectSeq(readlines(start[p]), Unmanaged))
                           \o Concat(EntryLines(ip[p], 17))
              /\ \A i \in 1..Len(hosts) : hosts[i].k = "dom" =>
                    hosts[i].a = (IF ip[p] = None THEN <<"None">> ELSE <<>>)
              /\ NumManaged(hosts) = 17

\* C9 witness: a completed run with ip = None that removed a managed line, and so
\* changed the file
C9_Witness ==
    /\ Done(1)
    /\ ip[1] = None
    /\ NumManaged(start[1]) >= 1
    /\ hosts # start[1]

\* C9 witness for the empty address is the same state with ip = ""
C9_WitnessEmpty == Done(1) /\ ip[1] = Str(<<>>) /\ hosts # start[1]

\* C10: after a completed run the backup is the hosts file as it was when that run
\* began; from the second run on that is the output of the previous run, ending
\* with the 17 entries that run appended.
C10_BackupIsLastStart ==
    \A p \in Procs : Done(p) =>
        /\ bak = start[p]
        /\ runs[p] >= 2 =>
              /\ Len(bak) >= 2 * Len(endpoints)
              /\ SubSeq(bak, Len(bak) - 2 * Len(endpoints) + 1, Len(bak))
                   = Concat(EntryLines(prevIp[p], Len(endpoints)))

\* C10 witness: two completed runs, and the backup no longer holds the first file
C10_Witness == Done(1) /\ runs[1] = 2 /\ bak # orig /\ orig # <<>>

-----------------------------------------------------------------------------
(* Claims about two concurrent patchers, checked under SpecConc *)

\* what the two runs leave when one follows the other, in either order
SequentialResults ==
    { PatchedHosts(PatchedHosts(orig, ip[1]), ip[2]),
      PatchedHosts(PatchedHosts(orig, ip[2]), ip[1]) }

BothDone == \A p \in Procs : Done(p)

\* C8: when both instances have completed and the hosts file is not the result of
\* either sequential order of the two runs, the runs overlapped in time: the shared
\* unlocked files make interleaved runs unsafe, while runs that do not overlap
\* always leave a sequential result.
C8_DivergenceNeedsOverlap ==
    (BothDone /\ hosts \notin SequentialResults) => overlap

\* C8 witness: an interleaving after which the hosts file differs from the result
\* of every sequential execution
C8_Witness == BothDone /\ overlap /\ hosts \notin SequentialResults

\* such an interleaving with the managed entries duplicated
C8_WitnessDuplicates ==
    BothDone /\ hosts \notin SequentialResults /\ NumManaged(hosts) > Len(endpoints)

\* such an interleaving with an unrelated line of the original file lost
C8_WitnessLostLine ==
    /\ BothDone
    /\ EndsLine(orig)
    /\ hosts \notin SequentialResults
    /\ \E i \in 1..Len(orig) :
          /\ orig[i].k = "txt"
          /\ \A j \in 1..Len(hosts) : hosts[j] # orig[i]

-----------------------------------------------------------------------------
(* Claims about the functions called directly, checked under SpecOps *)

\* the document the pod returned in the last call, as loaded
Returned == safe_load(StripLines(last.out.stdout))

\* the paths of the admin profile that the function overwrites
Overwritten ==
    { AdminPath \o <<"auth", "auth_url">>, AdminPath \o <<"verify">>,
      AdminPath \o <<"interface">>, AdminPath \o <<"endpoint_type">> }

Fetched == last.fn = "get_clouds_yaml_from_client" /\ last.kc /\ last.out.rc = 0

\* the last call completed, and the profile it saved and returned is the input's
\* admin profile with the four fields set and every other field as it was
RewrittenProfile ==
    /\ ~last.raised
    /\ clouds_yaml.exists
    /\ last.ret.t = "tuple"
    /\ last.ret.v[2] = output_path
    /\ LET saved == safe_load(clouds_yaml.text)
           profile == safe_load(last.ret.v[1])
           kept == {q \in DOMAIN Returned :
                       IsPrefix(AdminPath, q) /\ \A o \in Overwritten : ~IsPrefix(o, q)}
       IN  /\ DOMAIN saved = kept \cup Overwritten
           /\ saved[AdminPath \o <<"auth", "auth_url">>]
                = Str(<<"https://keystone.it.just.works">>)
           /\ saved[AdminPath \o <<"verify">>] = False
           /\ saved[AdminPath \o <<"interface">>] = Str(<<"public">>)
           /\ saved[AdminPath \o <<"endpoint_type">>] = Str(<<"publicURL">>)
           /\ \A q \in kept : saved[q] = Returned[q]
           /\ DOMAIN profile = {SubSeq(q, 3, Len(q)) : q \in DOMAIN saved}
           /\ \A q \in DOMAIN saved : profile[SubSeq(q, 3, Len(q))] = saved[q]

\* C3 as stated: for any document with an 'admin' profile the function completes,
\* and the profile it saves and returns has the four fields set and the rest kept.
C3_AnyAdminProfile ==
    (Fetched /\ HasMapping(Returned, AdminPath)) => RewrittenProfile

\* C3 amended: the same, for any document whose 'admin' profile has an 'auth'
\* mapping; without one the function raises and saves nothing.
C3_AdminProfileWithAuth ==
    /\ (Fetched /\ HasMapping(Returned, AdminPath \o <<"auth">>)) => RewrittenProfile
    /\ (Fetched /\ ~HasMapping(Returned, AdminPath \o <<"auth">>)) =>
          (last.raised /\ clouds_yaml = last.fileBefore)

\* C3 witness: a fetched document with a second profile, a quoted scalar and fields
\* the function overwrites
C3_Witness ==
    /\ Fetched
    /\ ~last.raised
    /\ DOMAIN Returned = {CloudsLines[i].path : i \in 1..Len(CloudsLines)}
    /\ last.out.stdout[Len(last.out.stdout)] = BlankLine

\* C4: with the kubeconfig missing, get_clouds_yaml_from_client and get_ingress_ip
\* return None without raising, start no kubectl and leave clouds.yaml as it was.
C4_MissingKubeconfig ==
    (last.fn \in {"get_clouds_yaml_from_client", "get_ingress_ip"} /\ ~last.kc) =>
        /\ ~last.raised
        /\ last.ret = None
        /\ kubectlCalls = last.kubectlBefore
        /\ clouds_yaml = last.fileBefore

\* C4 witness: the fetcher called without a kubeconfig after a call that had saved
\* clouds.yaml
C4_Witness ==
    /\ last.fn = "get_clouds_yaml_from_client"
    /\ ~last.kc
    /\ last.out.rc = 0
    /\ clouds_yaml.exists
    /\ kubectlCalls = 1

\* C4 witness for the resolver
C4_WitnessIngress == last.fn = "get_ingress_ip" /\ ~last.kc /\ last.out.rc = 0

\* C6: install_kubectl returns the KUBECTL_PATH override when it is set and not
\* empty, else the seed path when it exists, else the kubectl on the PATH, else the
\* downloaded binary's path; and it downloads only in the last case.
C6_Precedence ==
    last.fn = "install_kubectl" =>
        LET overridden == last.envv # None /\ last.envv # Str(<<>>)
            onPath == last.which # None
            attempted == downloads = last.downloadsBefore + 1
        IN  /\ downloads \in {last.downloadsBefore, last.downloadsBefore + 1}
            /\ overridden => (~last.raised /\ last.ret = last.envv /\ ~attempted)
            /\ (~overridden /\ last.seed) =>
                  (~last.raised /\ last.ret = Str(seed_kubectl_path) /\ ~attempted)
            /\ (~overridden /\ ~last.seed /\ onPath) =>
                  (~last.raised /\ last.ret = last.which /\ ~attempted)
            /\ (~overridden /\ ~last.seed /\ ~onPath) =>
                  /\ attempted
                  /\ last.raised = ~last.net.download_ok
                  /\ ~last.raised => (last.ret = Str(kubectl_path) /\ kubectl_file.exists)
            /\ attempted => (~overridden /\ ~last.seed /\ ~onPath)

\* C6 witness: an empty override, with the seed path and a kubectl on the PATH
\* both present
C6_Witness ==
    /\ last.fn = "install_kubectl"
    /\ last.envv = Str(<<>>)
    /\ last.seed
    /\ last.which # None

\* C6 witness for the download
C6_WitnessDownload ==
    /\ last.fn = "install_kubectl"
    /\ downloads = 1
    /\ kubectl_file.exists
    /\ last.ret = Str(kubectl_path)

-----------------------------------------------------------------------------
(* Claims about main(), checked under SpecMain *)

IsInitialSegment(q, r) == Len(q) <= Len(r) /\ q = SubSeq(r, 1, Len(q))

\* C5: main begins its steps in the fixed order, each one only after all earlier
\* ones returned; a step that fails (a subprocess exits non-zero, or the fetcher
\* finds no kubeconfig) is the last step begun; the activation script is written
\* and the banner printed only after every earlier step returned.
C5_FixedOrder ==
    /\ IsInitialSegment(started, MainOrder)
    /\ IsInitialSegment(completed, started)
    /\ Len(started) <= Len(completed) + 1
    /\ (Len(started) = Len(completed) + 1) <=> (mainPc = "aborted")
    /\ mainPc \notin {"aborted", "done"} => mainPc = MainOrder[Len(completed) + 1]
    /\ failed # "none" => (mainPc = "aborted" /\ started[Len(started)] = failed)
    /\ ~kubeconfig => Len(started) <= 4
    /\ ~kubeconfig => (hosts = orig /\ ~clouds_yaml.exists)
    /\ activation.exists => IsInitialSegment(SubSeq(MainOrder, 1, 7), completed)
    /\ banner <=> (completed = MainOrder /\ mainPc = "done")
    /\ banner => (failed = "none" /\ activation.exists)

\* C5 witness: a run that reached the banner
C5_Witness == banner /\ mainPc = "done" /\ hosts # orig /\ clouds_yaml.exists

\* C5 witness for an abort: the endpoint listing fails after the hosts file was
\* patched, and no activation script is written
C5_WitnessAbort ==
    /\ mainPc = "aborted"
    /\ failed = "init_openstack_client"
    /\ Len(completed) = 5
    /\ hosts # orig
    /\ ~activation.exists

\* C5 witness for the missing kubeconfig: main stops at the fetcher
C5_WitnessNoKubeconfig ==
    /\ ~kubeconfig
    /\ mainPc = "aborted"
    /\ started[Len(started)] = "get_clouds_yaml_from_client"

====
